---- MODULE Spec2Model ----
(***************************************************************************)
(* cfrand: a random number generator that XORs a 64-byte server digest,   *)
(* fetched once per generator, with fresh local entropy                    *)
(* (src/client/cfrand.py).                                                 *)
(*                                                                         *)
(* Python integers are unbounded, TLC's are 32 bits wide.  The integer     *)
(* built by _randbits from up to several hundred bits is therefore kept    *)
(* as a binary numeral: the sequence of its bits, most significant first,  *)
(* without leading zeros (0 is the empty numeral).  IntOf gives the        *)
(* number a numeral of at most 30 bits stands for.                         *)
(***************************************************************************)
EXTENDS Integers, Sequences, FiniteSets

VARIABLES env_url, rngs, default_rng, fetches, fr

vars == <<env_url, rngs, default_rng, fetches, fr>>

(***************************************************************************)
(* Program constants and the bounds of the model.                          *)
(***************************************************************************)
BLOCK_LEN == 64
SEED_LEN == 64
RANDOM_BITS == 53
HTTP_OK == 200

NumSeeds == 2
NumEntropy == 16
MaxK == 10
MaxOverK == 2
MaxUpper == 9
MaxArg == 1
MaxStep == 2
MaxLen == 3
MaxInstances == 2
MaxFetches == 3

(***************************************************************************)
(* Bytes and integers.                                                     *)
(***************************************************************************)
Min(a, b) == IF a <= b THEN a ELSE b

RECURSIVE Pow2(_)
Pow2(n) == IF n <= 0 THEN 1 ELSE 2 * Pow2(n - 1)

\* a ^ b on two bytes (Python's bitwise XOR), bit by bit from the low end.
RECURSIVE XorBits(_, _, _)
XorBits(a, b, n) ==
  IF n = 0 THEN 0
  ELSE (((a % 2) + (b % 2)) % 2) + 2 * XorBits(a \div 2, b \div 2, n - 1)

Xor(a, b) == XorBits(a, b, 8)

\* int.bit_length(): the number of bits of the binary numeral of n > 0.
RECURSIVE BitLength(_)
BitLength(n) == IF n <= 0 THEN 0 ELSE 1 + BitLength(n \div 2)

\* The bits of one byte, most significant first.
ByteBits(b) == [j \in 1..8 |-> (b \div Pow2(8 - j)) % 2]

RECURSIVE FirstOne(_, _)
FirstOne(bits, j) ==
  IF j > Len(bits) THEN 0
  ELSE IF bits[j] = 1 THEN j ELSE FirstOne(bits, j + 1)

\* A bit string as an integer: leading zeros carry no value.
Numeral(bits) ==
  LET f == FirstOne(bits, 1)
  IN IF f = 0 THEN <<>> ELSE SubSeq(bits, f, Len(bits))

\* int.from_bytes(data, "big")
FromBytesBig(data) ==
  Numeral([j \in 1..(8 * Len(data)) |->
             ByteBits(data[((j - 1) \div 8) + 1])[((j - 1) % 8) + 1]])

\* value >> n
ShiftRight(value, n) ==
  IF Len(value) <= n THEN <<>> ELSE SubSeq(value, 1, Len(value) - n)

RECURSIVE IntOfUpTo(_, _)
IntOfUpTo(value, n) ==
  IF n = 0 THEN 0 ELSE 2 * IntOfUpTo(value, n - 1) + value[n]

\* The number a numeral stands for.
IntOf(value) == IntOfUpTo(value, Len(value))

(***************************************************************************)
(* The inputs: local entropy blocks (os.urandom) and server digests.       *)
(***************************************************************************)
EntropyBlock(p) ==
  [i \in 1..BLOCK_LEN |-> (16 * p + (i - 1) * (2 * p + 3) + 5) % 256]

EntropyBlocks == {EntropyBlock(p) : p \in 0..(NumEntropy - 1)}

Digest(q) == [i \in 1..SEED_LEN |-> (q * 37 + i * 11) % 256]

Seeds == {Digest(q) : q \in 1..NumSeeds}

ShortDigest == SubSeq(Digest(1), 1, SEED_LEN - 1)

LongDigest == Digest(1) \o <<7>>

(***************************************************************************)
(* The frame of the running (or last) call: the locals of the methods on   *)
(* the call path.  drawn, draws, x0, argv, resp and entropy_used record    *)
(* what the call consumed; no operation reads them.                        *)
(***************************************************************************)
Blank ==
  [op |-> "", via_module |-> FALSE, self |-> 0, pc |-> "idle", err |-> "",
   ret |-> 0, argv |-> <<>>, start |-> 0, stop |-> 0, step |-> 0, count |-> 0,
   seq |-> <<>>, seq_list |-> <<>>, x |-> <<>>, x0 |-> <<>>, i |-> 0,
   upper |-> 0, bit_size |-> 0, k |-> 0, length |-> 0, output |-> <<>>,
   drawn |-> <<>>, value |-> <<>>, draws |-> <<>>, entropy_used |-> FALSE,
   resp |-> <<>>]

Raise(f, e) == [f EXCEPT !.err = e, !.pc = "idle"]

Return(f) == [f EXCEPT !.pc = "idle"]

(***************************************************************************)
(* _xor_block, _random_bytes, _randbits                                    *)
(***************************************************************************)
\* bytes(a ^ b for a, b in zip(entropy, self._server_bytes))
xor_block(entropy, server_bytes) ==
  [i \in 1..Min(Len(entropy), Len(server_bytes)) |-> Xor(entropy[i], server_bytes[i])]

\* bytes(output[:length])
RandomBytesResult(output, length) ==
  IF length <= 0 THEN <<>> ELSE SubSeq(output, 1, Min(length, Len(output)))

ByteLen(k) == (k + 7) \div 8

\* Slip: the padding bits are not shifted out.
ExcessIgnored(byte_len, k) == 0

Excess(byte_len, k) == byte_len * 8 - k

\* The value _randbits(k) returns once _random_bytes has filled output.
RandbitsValue(output, k) ==
  LET byte_len == ByteLen(k)
      data == RandomBytesResult(output, byte_len)
      value == FromBytesBig(data)
      excess == Excess(byte_len, k)
  IN IF excess # 0 THEN ShiftRight(value, excess) ELSE value

\* Slip: the buffer of the previous call is kept.
RandomBytesEnterKeeping(f, length) ==
  [f EXCEPT !.length = length, !.pc = "random_bytes"]

RandomBytesEnter(f, length) ==
  [f EXCEPT !.length = length, !.output = <<>>, !.drawn = <<>>,
            !.pc = "random_bytes"]

RandbitsEnter(f, k) == RandomBytesEnter([f EXCEPT !.k = k], ByteLen(k))

(***************************************************************************)
(* _randbelow and the operations built on it                               *)
(***************************************************************************)
\* Slip: the width of upper - 1.
BitSizeOfPredecessor(upper) == BitLength(upper - 1)

BitSize(upper) == BitLength(upper)

\* Slip: the bound itself is accepted.
AcceptsBound(candidate, upper) == candidate <= upper

Accepts(candidate, upper) == candidate < upper

RandbelowEnter(f, upper) ==
  IF upper <= 0 THEN Raise([f EXCEPT !.upper = upper], "ValueError")
  ELSE RandbitsEnter([f EXCEPT !.upper = upper, !.bit_size = BitSize(upper)],
                     BitSize(upper))

\* Slip: the quotient rounded down instead of up.
RangeLenFloor(start, stop, step) ==
  IF step > 0 /\ start < stop THEN (stop - start) \div step
  ELSE IF step < 0 /\ start > stop THEN (start - stop) \div (0 - step)
  ELSE 0

\* len(range(start, stop, step)), step # 0
RangeLen(start, stop, step) ==
  IF step > 0 /\ start < stop THEN 1 + ((stop - 1 - start) \div step)
  ELSE IF step < 0 /\ start > stop THEN 1 + ((start - 1 - stop) \div (0 - step))
  ELSE 0

\* range(start, stop, step)[index]
RangeItem(start, step, index) == start + index * step

\* stop is <<>> for None and <<n>> for the integer n.
RandrangeEnter(f, start, stop, step) ==
  LET start1 == IF stop = <<>> THEN 0 ELSE start
      stop1 == IF stop = <<>> THEN start ELSE stop[1]
      g == [f EXCEPT !.start = start1, !.stop = stop1, !.step = step]
  IN IF step = 0 THEN Raise(g, "ValueError")
     ELSE LET count == RangeLen(start1, stop1, step)
          IN IF count <= 0 THEN Raise([g EXCEPT !.count = count], "ValueError")
             ELSE RandbelowEnter([g EXCEPT !.count = count], count)

\* Slip: the upper end left out.
RandintStopExclusive(b) == b

RandintStop(b) == b + 1

\* Slip: the last index left out.
ChoiceUpperShort(seq_list) == Len(seq_list) - 1

\* len(seq_list)
ChoiceUpper(seq_list) == Len(seq_list)

\* seq_list[index]
ChoiceItem(seq_list, index) == seq_list[index + 1]

\* Slip: position i is never swapped with itself.
ShuffleUpperExclusive(i) == i

ShuffleUpper(i) == i + 1

\* x[i], x[j] = x[j], x[i]
Swap(x, i, j) == [x EXCEPT ![i + 1] = x[j + 1], ![j + 1] = x[i + 1]]

BelowOps == {"_randbelow", "randrange", "randint", "choice", "shuffle"}

BitsOps == {"_randbits", "random", "uniform"}

\* What the caller of _randbelow does with the index it returns.
RandbelowReturn(f, index) ==
  CASE f.op = "_randbelow" -> Return([f EXCEPT !.ret = index])
    [] f.op \in {"randrange", "randint"} ->
         Return([f EXCEPT !.ret = RangeItem(f.start, f.step, index)])
    [] f.op = "choice" -> Return([f EXCEPT !.ret = ChoiceItem(f.seq_list, index)])
    [] f.op = "shuffle" ->
         LET g == [f EXCEPT !.x = Swap(f.x, f.i, index)]
         IN IF f.i - 1 >= 1
            THEN RandbelowEnter([g EXCEPT !.i = f.i - 1], ShuffleUpper(f.i - 1))
            ELSE Return(g)

(***************************************************************************)
(* The seed source's answer and _fetch_seed                                *)
(***************************************************************************)
HexDigits == <<"0", "1", "2", "3", "4", "5", "6", "7",
               "8", "9", "a", "b", "c", "d", "e", "f">>

HexDigitsUpper == <<"0", "1", "2", "3", "4", "5", "6", "7",
                    "8", "9", "A", "B", "C", "D", "E", "F">>

IsSpace(c) == c = " "

IsHexDigit(c) == \E n \in 1..16 : HexDigits[n] = c \/ HexDigitsUpper[n] = c

HexValue(c) == (CHOOSE n \in 1..16 : HexDigits[n] = c \/ HexDigitsUpper[n] = c) - 1

NotSpace(c) == ~IsSpace(c)

\* bytes.fromhex(s): whitespace between bytes is skipped, each byte is two
\* hexadecimal digits, and anything else (a character that is no digit, a
\* blank inside a byte, a digit left over) is a ValueError.
FromHex(s) ==
  LET digits == SelectSeq(s, NotSpace)
      before(i) == Len(SelectSeq(SubSeq(s, 1, i - 1), NotSpace))
      ok == /\ \A i \in 1..Len(digits) : IsHexDigit(digits[i])
            /\ Len(digits) % 2 = 0
            /\ \A i \in 1..Len(s) : IsSpace(s[i]) => before(i) % 2 = 0
  IN [ok |-> ok,
      bytes |-> IF ok
                THEN [n \in 1..(Len(digits) \div 2) |->
                        16 * HexValue(digits[2 * n - 1]) + HexValue(digits[2 * n])]
                ELSE <<>>]

\* Slip: a digest longer than the seed passes.
SeedLenAtLeast(server_bytes) == Len(server_bytes) >= SEED_LEN

SeedLenOk(server_bytes) == Len(server_bytes) = SEED_LEN

\* _fetch_seed on the answer r: the error raised ("" for none) and the bytes
\* stored in self._server_bytes.  urlopen itself raises URLError when the
\* source cannot be reached in time and HTTPError on a status of 400 or more.
FetchSeed(r) ==
  LET fail(e) == [err |-> e, server_bytes |-> <<>>]
  IN IF ~r.reached THEN fail("URLError")
     ELSE IF r.status >= 400 THEN fail("HTTPError")
     ELSE IF r.status # HTTP_OK THEN fail("RuntimeError")
     ELSE IF ~r.json THEN fail("JSONDecodeError")
     ELSE IF ~r.has_field \/ r.hash_sha3_512 = <<>> THEN fail("RuntimeError")
     ELSE LET decoded == FromHex(r.hash_sha3_512)
          IN IF ~decoded.ok THEN fail("RuntimeError")
             ELSE IF ~SeedLenOk(decoded.bytes) THEN fail("RuntimeError")
             ELSE [err |-> "", server_bytes |-> decoded.bytes]

(***************************************************************************)
(* The answers tried: the hexadecimal digest of a 64-byte seed in lower    *)
(* case, in upper case and with blanks between the bytes; and every        *)
(* deviation, one at a time.                                               *)
(***************************************************************************)
Hex(d, digits) ==
  [j \in 1..(2 * Len(d)) |->
     digits[(IF j % 2 = 1 THEN d[(j + 1) \div 2] \div 16 ELSE d[j \div 2] % 16) + 1]]

HexSpaced(d) ==
  [j \in 1..(3 * Len(d)) |->
     IF j % 3 = 1 THEN " "
     ELSE HexDigits[(IF j % 3 = 2 THEN d[(j + 2) \div 3] \div 16
                     ELSE d[j \div 3] % 16) + 1]]

Answer(h) ==
  [reached |-> TRUE, status |-> HTTP_OK, json |-> TRUE, has_field |-> TRUE,
   hash_sha3_512 |-> h]

GoodAnswers ==
  {Answer(Hex(d, HexDigits)) : d \in Seeds}
    \cup {Answer(Hex(Digest(1), HexDigitsUpper)), Answer(HexSpaced(Digest(1)))}

BadAnswers ==
  LET d == Digest(1)
      h == Hex(d, HexDigits)
  IN {[Answer(h) EXCEPT !.reached = FALSE],
      [Answer(h) EXCEPT !.status = 500],
      [Answer(h) EXCEPT !.status = 204],
      [Answer(h) EXCEPT !.json = FALSE],
      [Answer(h) EXCEPT !.has_field = FALSE],
      Answer(<<>>),
      Answer([h EXCEPT ![5] = "g"]),
      Answer(SubSeq(h, 1, Len(h) - 1)),
      Answer(Hex(ShortDigest, HexDigits)),
      Answer(Hex(LongDigest, HexDigits))}

Answers == GoodAnswers \cup BadAnswers

\* _fetch_seed on each of the answers, computed once.
FetchSeedOf == [r \in Answers |-> FetchSeed(r)]

\* CFRand.__init__(url): url is TRUE when the caller passes one.
CFRandInit(url, r) ==
  IF ~(url \/ env_url)
  THEN [err |-> "RuntimeError", server_bytes |-> <<>>, fetched |-> FALSE]
  ELSE LET got == FetchSeedOf[r]
       IN [err |-> got.err, server_bytes |-> got.server_bytes, fetched |-> TRUE]

(***************************************************************************)
(* Module load and construction                                            *)
(***************************************************************************)
Idle == fr.pc = "idle"

Instances == 1..Len(rngs)

\* What _default_rng names after a construction: the assignment of line 140
\* happens only when CFRand() returns.
DefaultAfter(bind_default, err, instance) ==
  IF bind_default /\ err = "" THEN instance ELSE default_rng

\* The state after CFRand(url) answered by r: a new instance only on success.
Constructed(opname, url, r, bind_default) ==
  LET got == CFRandInit(url, r)
  IN /\ fetches' = IF got.fetched THEN fetches + 1 ELSE fetches
     /\ rngs' = IF got.err = "" THEN Append(rngs, [server_bytes |-> got.server_bytes])
                ELSE rngs
     /\ default_rng' = DefaultAfter(bind_default, got.err, Len(rngs) + 1)
     /\ fr' = [Blank EXCEPT !.op = opname, !.err = got.err, !.resp = <<r>>,
                            !.argv = <<url>>]
     /\ UNCHANGED env_url

\* import client.cfrand: the module body runs _default_rng = CFRand().  A failed
\* import leaves no module behind, and a later import runs the body again.
Import(r) ==
  /\ Idle
  /\ default_rng = 0
  /\ fetches < MaxFetches
  /\ Constructed("import", FALSE, r, TRUE)

\* CFRand(url) by a caller; the class is reachable only through the module.
Construct(url, r) ==
  /\ Idle
  /\ default_rng # 0
  /\ Len(rngs) < MaxInstances
  /\ fetches < MaxFetches
  /\ Constructed("CFRand", url, r, FALSE)

(***************************************************************************)
(* The operations of a generator                                           *)
(***************************************************************************)
Call(self, via, opname, argv) ==
  [Blank EXCEPT !.op = opname, !.self = self, !.via_module = via, !.argv = argv]

CanCall(self) == Idle /\ self \in Instances

Randbits(self, k) ==
  /\ CanCall(self)
  /\ fr' = RandbitsEnter(Call(self, FALSE, "_randbits", <<k>>), k)
  /\ UNCHANGED <<env_url, rngs, default_rng, fetches>>

Randbelow(self, upper) ==
  /\ CanCall(self)
  /\ fr' = RandbelowEnter(Call(self, FALSE, "_randbelow", <<upper>>), upper)
  /\ UNCHANGED <<env_url, rngs, default_rng, fetches>>

Random(self, via) ==
  /\ CanCall(self)
  /\ fr' = RandbitsEnter(Call(self, via, "random", <<>>), RANDOM_BITS)
  /\ UNCHANGED <<env_url, rngs, default_rng, fetches>>

\* a + (b - a) * self.random(): the frame keeps a, b and the 53 bits drawn.
Uniform(self, via, a, b) ==
  /\ CanCall(self)
  /\ fr' = RandbitsEnter(Call(self, via, "uniform", <<a, b>>), RANDOM_BITS)
  /\ UNCHANGED <<env_url, rngs, default_rng, fetches>>

Randrange(self, via, start, stop, step) ==
  /\ CanCall(self)
  /\ fr' = RandrangeEnter(Call(self, via, "randrange", <<start, stop, step>>),
                          start, stop, step)
  /\ UNCHANGED <<env_url, rngs, default_rng, fetches>>

Randint(self, via, a, b) ==
  /\ CanCall(self)
  /\ fr' = RandrangeEnter(Call(self, via, "randint", <<a, b>>),
                          a, <<RandintStop(b)>>, 1)
  /\ UNCHANGED <<env_url, rngs, default_rng, fetches>>

Choice(self, via, seq) ==
  /\ CanCall(self)
  /\ LET f == [Call(self, via, "choice", <<seq>>) EXCEPT !.seq = seq, !.seq_list = seq]
     IN fr' = IF f.seq_list = <<>> THEN Raise(f, "IndexError")
              ELSE RandbelowEnter(f, ChoiceUpper(f.seq_list))
  /\ UNCHANGED <<env_url, rngs, default_rng, fetches>>

Shuffle(self, via, x) ==
  /\ CanCall(self)
  /\ LET f == [Call(self, via, "shuffle", <<>>) EXCEPT !.x = x, !.x0 = x]
     IN fr' = IF Len(x) < 2 THEN Return(f)
              ELSE RandbelowEnter([f EXCEPT !.i = Len(x) - 1], ShuffleUpper(Len(x) - 1))
  /\ UNCHANGED <<env_url, rngs, default_rng, fetches>>

(***************************************************************************)
(* The module-level functions, which call the default generator.           *)
(***************************************************************************)
ModRandom == default_rng # 0 /\ Random(default_rng, TRUE)

ModRandrange(start, stop, step) ==
  default_rng # 0 /\ Randrange(default_rng, TRUE, start, stop, step)

ModRandint(a, b) == default_rng # 0 /\ Randint(default_rng, TRUE, a, b)

ModChoice(seq) == default_rng # 0 /\ Choice(default_rng, TRUE, seq)

ModShuffle(x) == default_rng # 0 /\ Shuffle(default_rng, TRUE, x)

ModUniform(a, b) == default_rng # 0 /\ Uniform(default_rng, TRUE, a, b)

(***************************************************************************)
(* The steps of a running call                                             *)
(***************************************************************************)
ServerBytes == rngs[fr.self].server_bytes

InRandomBytes(f) == f.pc = "random_bytes"

\* _random_bytes' loop test: not (len(output) < length), or length <= 0.
Filled(f) == f.length <= 0 \/ Len(f.output) >= f.length

\* output.extend(self._xor_block())
XorBlockFrame(f, entropy, server_bytes) ==
  [f EXCEPT !.output = @ \o xor_block(entropy, server_bytes),
            !.drawn = Append(@, entropy),
            !.entropy_used = TRUE]

\* candidate = self._randbits(bit_size)
Candidate(f) == IntOf(RandbitsValue(f.output, f.k))

\* One turn of _random_bytes' loop.
XorBlock(entropy) ==
  /\ InRandomBytes(fr)
  /\ ~Filled(fr)
  /\ fr' = XorBlockFrame(fr, entropy, ServerBytes)
  /\ UNCHANGED <<env_url, rngs, default_rng, fetches>>

\* _randbits returns to _randbits' caller, random or uniform.
ReturnBits ==
  /\ InRandomBytes(fr)
  /\ Filled(fr)
  /\ fr.op \in BitsOps
  /\ fr' = Return([fr EXCEPT !.value = RandbitsValue(fr.output, fr.k)])
  /\ UNCHANGED <<env_url, rngs, default_rng, fetches>>

\* _randbits returns to _randbelow a candidate below upper.
Accept ==
  /\ InRandomBytes(fr)
  /\ Filled(fr)
  /\ fr.op \in BelowOps
  /\ Accepts(Candidate(fr), fr.upper)
  /\ fr' = RandbelowReturn([fr EXCEPT !.value = RandbitsValue(fr.output, fr.k),
                                      !.draws = Append(@, Candidate(fr))],
                           Candidate(fr))
  /\ UNCHANGED <<env_url, rngs, default_rng, fetches>>

\* _randbits returns to _randbelow a candidate it rejects: the loop draws again.
Reject ==
  /\ InRandomBytes(fr)
  /\ Filled(fr)
  /\ fr.op \in BelowOps
  /\ ~Accepts(Candidate(fr), fr.upper)
  /\ fr' = RandbitsEnter(fr, fr.bit_size)
  /\ UNCHANGED <<env_url, rngs, default_rng, fetches>>

(***************************************************************************)
(* The arguments tried                                                     *)
(***************************************************************************)
BlockBits == 8 * BLOCK_LEN

Ks == (0..MaxK) \cup {RANDOM_BITS} \cup ((BlockBits - 1)..(BlockBits + MaxOverK))

Uppers == (0 - 1)..MaxUpper

Args == (0 - MaxArg)..MaxArg

Stops == {<<>>} \cup {<<n>> : n \in (0 - MaxArg)..(MaxArg + 1)}

Steps == (0 - MaxStep)..MaxStep

RangeArgs ==
  (Args \X Stops \X Steps) \cup {<<10, <<100>>, 5>>, <<5, <<5>>, 1>>}

Lists == {[n \in 1..len |-> 10 * n] : len \in 0..MaxLen}

ChoiceSeqs == Lists \cup {<<4, 4>>}

(***************************************************************************)
(* The program: the module is loaded, generators are constructed, and      *)
(* callers use them one call at a time.                                    *)
(***************************************************************************)
Init ==
  /\ env_url \in BOOLEAN
  /\ rngs = <<>>
  /\ default_rng = 0
  /\ fetches = 0
  /\ fr = Blank

Next ==
  \/ \E r \in Answers : Import(r)
  \/ \E url \in BOOLEAN, r \in Answers : Construct(url, r)
  \/ \E self \in Instances : Randbits(self, 9)
  \/ \E self \in Instances, upper \in {0, 3} : Randbelow(self, upper)
  \/ \E self \in Instances : Random(self, FALSE)
  \/ \E self \in Instances : Uniform(self, FALSE, 1, 2)
  \/ \E self \in Instances : Randrange(self, FALSE, 3, <<>>, 1)
  \/ \E self \in Instances : Randint(self, FALSE, 1, 2)
  \/ \E self \in Instances : Choice(self, FALSE, <<10, 20>>)
  \/ \E self \in Instances : Shuffle(self, FALSE, <<10, 20>>)
  \/ ModRandom
  \/ ModUniform(1, 2)
  \/ ModRandrange(3, <<>>, 1)
  \/ ModRandint(1, 2)
  \/ \E seq \in {<<>>, <<10, 20>>} : ModChoice(seq)
  \/ \E x \in {<<10>>, <<10, 20>>} : ModShuffle(x)
  \/ \E entropy \in EntropyBlocks : XorBlock(entropy)
  \/ ReturnBits
  \/ Accept
  \/ Reject

Spec == Init /\ [][Next]_vars

(***************************************************************************)
(* One generator, already constructed, and every operation on it.          *)
(***************************************************************************)
GenInit ==
  /\ env_url = TRUE
  /\ \E s \in Seeds : rngs = <<[server_bytes |-> s]>>
  /\ default_rng = 1
  /\ fetches = 1
  /\ fr = Blank

GenNext ==
  \/ \E k \in Ks : Randbits(1, k)
  \/ \E upper \in Uppers : Randbelow(1, upper)
  \/ Random(1, FALSE)
  \/ \E a, b \in {0, 1} : Uniform(1, FALSE, a, b)
  \/ \E a \in RangeArgs : Randrange(1, FALSE, a[1], a[2], a[3])
  \/ \E a, b \in Args : Randint(1, FALSE, a, b)
  \/ \E seq \in ChoiceSeqs : Choice(1, FALSE, seq)
  \/ \E x \in Lists : Shuffle(1, FALSE, x)
  \/ \E entropy \in EntropyBlocks : XorBlock(entropy)
  \/ ReturnBits
  \/ Accept
  \/ Reject

GenSpec == GenInit /\ [][GenNext]_vars

(***************************************************************************)
(* What the claims compare the generator with: the stream of mixed bits,   *)
(* read off the entropy drawn and the seed bit by bit.                     *)
(***************************************************************************)
Returned(ops) == fr.op \in ops /\ fr.pc = "idle" /\ fr.err = ""

Raised(ops, e) == fr.op \in ops /\ fr.pc = "idle" /\ fr.err = e

\* Bit j (from 1, most significant first) of byte b.
RefBit(b, j) == (b \div Pow2(8 - j)) % 2

\* Bit j of the concatenation of the mixed blocks of the entropy drawn.
RefStreamBit(drawn, seed, j) ==
  LET n == (j - 1) \div 8
      e == drawn[(n \div BLOCK_LEN) + 1][(n % BLOCK_LEN) + 1]
      b == seed[(n % SEED_LEN) + 1]
      pos == ((j - 1) % 8) + 1
  IN (RefBit(e, pos) + RefBit(b, pos)) % 2

\* ceil(a / b)
RefCeil(a, b) == CHOOSE q \in 0..a : q * b >= a /\ (q = 0 \/ (q - 1) * b < a)

\* The first bits bits of the stream as a number (bits <= 30).
RECURSIVE RefStreamInt(_, _, _)
RefStreamInt(drawn, seed, bits) ==
  IF bits = 0 THEN 0
  ELSE 2 * RefStreamInt(drawn, seed, bits - 1) + RefStreamBit(drawn, seed, bits)

\* Bit j of value written with k bits.
BitAt(value, k, j) ==
  IF j <= k - Len(value) THEN 0 ELSE value[j - (k - Len(value))]

(***************************************************************************)
(* C1. _randbelow(upper) with upper > 0 returns the first candidate drawn  *)
(* that is below upper, as drawn, so a value of 0..upper-1; with           *)
(* upper <= 0 it raises ValueError before any entropy is drawn.            *)
(***************************************************************************)
C1_RandbelowStep ==
  /\ (Idle /\ fr'.op = "_randbelow" /\ fr'.argv[1] <= 0)
       => fr'.pc = "idle" /\ fr'.err = "ValueError" /\ ~fr'.entropy_used
  /\ (Idle /\ fr'.op = "_randbelow" /\ fr'.argv[1] > 0)
       => fr'.pc = "random_bytes" /\ fr'.err = "" /\ fr'.upper = fr'.argv[1]
  /\ (fr.op \in BelowOps /\ InRandomBytes(fr) /\ Filled(fr))
       => LET c == RefStreamInt(fr.drawn, ServerBytes, fr.k)
          IN IF c < fr.upper
             THEN /\ fr'.draws = Append(fr.draws, c)
                  /\ c \in 0..(fr.upper - 1)
                  /\ fr.op = "_randbelow"
                       => fr'.pc = "idle" /\ fr'.err = "" /\ fr'.ret = c
             ELSE /\ fr'.pc = "random_bytes"
                  /\ fr'.draws = fr.draws
                  /\ fr'.op = fr.op

\* C1: every step of a call keeps to what _randbelow is claimed to do.
C1_Randbelow == [][C1_RandbelowStep]_vars

C1_Witness ==
  /\ Returned({"_randbelow"})
  /\ fr.upper = 5
  /\ fr.ret = 4
  /\ fr.entropy_used

(***************************************************************************)
(* C2. _randbits(k), k >= 1, is the first ceil(k/8) bytes of the mixed     *)
(* stream read as a big-endian number and shifted right by                 *)
(* 8*ceil(k/8) - k bits: its k bits are the first k bits of the stream.    *)
(* It lies in 0..2^k-1 and is a function of the seed and the entropy.      *)
(***************************************************************************)
C2_Randbits ==
  (Returned(BitsOps) /\ fr.k >= 1) =>
    LET nbytes == RefCeil(fr.k, 8)
    IN /\ Len(fr.drawn) = RefCeil(nbytes, BLOCK_LEN)
       /\ Len(fr.value) <= fr.k
       /\ \A j \in 1..fr.k :
            BitAt(fr.value, fr.k, j) = RefStreamBit(fr.drawn, ServerBytes, j)
       /\ fr.k <= 24 =>
            /\ IntOf(fr.value) =
                 RefStreamInt(fr.drawn, ServerBytes, 8 * nbytes)
                   \div Pow2(8 * nbytes - fr.k)
            /\ IntOf(fr.value) \in 0..(Pow2(fr.k) - 1)

C2_Witness ==
  /\ Returned({"_randbits"})
  /\ fr.k = BlockBits + 1
  /\ Len(fr.drawn) = 2
  /\ Len(fr.value) = fr.k

(***************************************************************************)
(* C9 as claimed: the width of a candidate is the smallest b with          *)
(* upper <= 2^b, a power of two 2^m gets width m and has every candidate   *)
(* accepted, and more than half of the candidates are always accepted.     *)
(***************************************************************************)
AcceptedCandidates(upper, bits) ==
  {c \in 0..(Pow2(bits) - 1) : Accepts(c, upper)}

IsPowerOfTwo(n) == \E m \in 0..30 : n = Pow2(m)

CanDraw(j) ==
  \E entropy \in EntropyBlocks :
    LET g == XorBlockFrame(fr, entropy, ServerBytes)
    IN Filled(g) /\ Accepts(Candidate(g), g.upper) /\ Candidate(g) = j

AtLoopTop == InRandomBytes(fr) /\ fr.op \in BelowOps /\ fr.output = <<>>

(***************************************************************************)
(* C3. randrange(start, stop, step), with stop None meaning 0..start-1,    *)
(* raises ValueError when step = 0 or the progression is empty, and        *)
(* otherwise returns start + index*step for the index _randbelow(count)    *)
(* drew, count the number of elements: a member of the progression.        *)
(***************************************************************************)
Progression(start, stop, step) ==
  IF step > 0 THEN {n \in start..(stop - 1) : (n - start) % step = 0}
  ELSE IF step < 0 THEN {n \in (stop + 1)..start : (start - n) % (0 - step) = 0}
  ELSE {}

C3_Randrange ==
  fr.op = "randrange" =>
    LET start == IF fr.argv[2] = <<>> THEN 0 ELSE fr.argv[1]
        stop == IF fr.argv[2] = <<>> THEN fr.argv[1] ELSE fr.argv[2][1]
        step == fr.argv[3]
        members == Progression(start, stop, step)
    IN IF step = 0 \/ members = {}
       THEN Raised({"randrange"}, "ValueError") /\ ~fr.entropy_used
       ELSE /\ fr.err = ""
            /\ fr.upper = Cardinality(members)
            /\ fr.pc = "idle" =>
                 /\ Len(fr.draws) = 1
                 /\ fr.draws[1] \in 0..(Cardinality(members) - 1)
                 /\ fr.ret = start + fr.draws[1] * step
                 /\ fr.ret \in members

C3_Witness ==
  /\ Returned({"randrange"})
  /\ fr.argv = <<1, <<0 - 1>>, 0 - 1>>
  /\ fr.ret = 0

(***************************************************************************)
(* C4. randint(a, b) with a <= b returns only r with a <= r <= b, and      *)
(* some entropy makes it return a and some makes it return b; with a > b   *)
(* it raises ValueError.                                                   *)
(***************************************************************************)
C4_Randint ==
  fr.op = "randint" =>
    LET a == fr.argv[1]
        b == fr.argv[2]
    IN IF a > b THEN Raised({"randint"}, "ValueError")
       ELSE /\ fr.err = ""
            /\ fr.pc = "idle" =>
                 /\ a <= fr.ret /\ fr.ret <= b
                 /\ fr.ret = a + fr.draws[1]
            /\ AtLoopTop => CanDraw(0) /\ CanDraw(b - a)

C4_Witness ==
  /\ Returned({"randint"})
  /\ fr.argv = <<0 - 1, 1>>
  /\ fr.ret = 1

(***************************************************************************)
(* C5. shuffle of n distinct elements draws j = _randbelow(i + 1) for      *)
(* i = n-1 down to 1 and swaps positions i and j.  The list is always a    *)
(* permutation of the original; every draw 0..i can happen at step i; the  *)
(* final order is the one the draws determine, no other draws give it, and *)
(* the draw sequences give all n! orders.  For n < 2 the list is left      *)
(* alone and no entropy is drawn.                                          *)
(***************************************************************************)
RefSwap(x, a, b) ==
  [n \in 1..Len(x) |-> IF n = a THEN x[b] ELSE IF n = b THEN x[a] ELSE x[n]]

\* The list after the draws js (for i = n-1, n-2, ...) from position t on.
RECURSIVE RefShuffle(_, _, _)
RefShuffle(x, js, t) ==
  IF t > Len(js) THEN x
  ELSE RefShuffle(RefSwap(x, Len(x) - t + 1, js[t] + 1), js, t + 1)

\* The draw sequences (j for i = n-1 down to 1) with 0 <= j <= i.
DrawSeqs(n) ==
  IF n < 2 THEN {<<>>}
  ELSE {js \in [1..(n - 1) -> 0..(n - 1)] : \A t \in 1..(n - 1) : js[t] <= n - t}

Permutations(x) ==
  {p \in [1..Len(x) -> {x[n] : n \in 1..Len(x)}] :
     \A e \in {x[n] : n \in 1..Len(x)} : \E n \in 1..Len(x) : p[n] = e}

RECURSIVE Factorial(_)
Factorial(n) == IF n <= 1 THEN 1 ELSE n * Factorial(n - 1)

C5_Shuffle ==
  fr.op = "shuffle" =>
    LET n == Len(fr.x0)
    IN /\ fr.x \in Permutations(fr.x0)
       /\ fr.err = ""
       /\ n < 2 => fr.pc = "idle" /\ fr.x = fr.x0 /\ ~fr.entropy_used
       /\ AtLoopTop =>
            /\ fr.i = n - 1 - Len(fr.draws)
            /\ \A j \in 0..fr.i : CanDraw(j)
            /\ \A j \in 0..n : CanDraw(j) => j <= fr.i
       /\ (fr.pc = "idle" /\ n >= 2) =>
            /\ fr.draws \in DrawSeqs(n)
            /\ fr.x = RefShuffle(fr.x0, fr.draws, 1)
            /\ \A js \in DrawSeqs(n) :
                 RefShuffle(fr.x0, js, 1) = fr.x => js = fr.draws
            /\ {RefShuffle(fr.x0, js, 1) : js \in DrawSeqs(n)} = Permutations(fr.x0)
            /\ Cardinality(Permutations(fr.x0)) = Factorial(n)

C5_Witness ==
  /\ Returned({"shuffle"})
  /\ fr.x0 = <<10, 20, 30>>
  /\ fr.x = <<30, 20, 10>>
  /\ fr.draws = <<0, 1>>

(***************************************************************************)
(* C6. choice of an empty sequence raises IndexError without drawing       *)
(* entropy; of a non-empty one it returns the element at the index         *)
(* _randbelow(len) drew: an element of the sequence, any element for some  *)
(* entropy, the only element of a sequence of one.  The sequence passed in *)
(* is not modified.                                                        *)
(***************************************************************************)
C6_Choice ==
  fr.op = "choice" =>
    LET seq == fr.argv[1]
    IN /\ fr.seq = seq
       /\ IF seq = <<>>
          THEN Raised({"choice"}, "IndexError") /\ ~fr.entropy_used
          ELSE /\ fr.err = ""
               /\ fr.upper = Len(seq)
               /\ AtLoopTop => \A n \in 1..Len(seq) : CanDraw(n - 1)
               /\ fr.pc = "idle" =>
                    /\ Len(fr.draws) = 1
                    /\ fr.draws[1] \in 0..(Len(seq) - 1)
                    /\ fr.ret = seq[fr.draws[1] + 1]
                    /\ \E n \in 1..Len(seq) : seq[n] = fr.ret
                    /\ Len(seq) = 1 => fr.ret = seq[1]

C6_Witness ==
  /\ Returned({"choice"})
  /\ fr.argv[1] = <<10, 20, 30>>
  /\ fr.ret = 30

(***************************************************************************)
(* C7. A construction succeeds exactly when a URL is set and the source    *)
(* answers with status 200 and a JSON body whose hash_sha3_512 is the      *)
(* hexadecimal writing of 64 bytes; the new instance's seed is those       *)
(* bytes.  On every deviation it raises and no instance is created.  So    *)
(* every instance has a seed of 64 bytes, and no step changes the seed of  *)
(* an instance.                                                            *)
(***************************************************************************)
RefDigests == Seeds \cup {ShortDigest, LongDigest}

\* The byte strings an answer's digest is the hexadecimal writing of.
RefDecodesOf ==
  [r \in Answers |->
     {d \in RefDigests :
        r.hash_sha3_512 \in {Hex(d, HexDigits), Hex(d, HexDigitsUpper), HexSpaced(d)}}]

C7_ConstructionStep ==
  /\ \A n \in 1..Len(rngs) : Len(rngs') >= n /\ rngs'[n] = rngs[n]
  /\ \A n \in 1..Len(rngs') : Len(rngs'[n].server_bytes) = 64
  /\ fr'.op \in {"import", "CFRand"} =>
       LET r == fr'.resp[1]
           good == /\ fr'.argv[1] \/ env_url
                   /\ r.reached /\ r.status = 200 /\ r.json /\ r.has_field
                   /\ \E d \in RefDecodesOf[r] : Len(d) = 64
       IN IF good
          THEN /\ fr'.err = ""
               /\ Len(rngs') = Len(rngs) + 1
               /\ rngs'[Len(rngs')].server_bytes \in RefDecodesOf[r]
          ELSE /\ fr'.err # ""
               /\ rngs' = rngs

C8_LazyDefaultStep ==
  /\ (default_rng = 0 /\ fetches' # fetches) => fr'.via_module
  /\ (default_rng # 0 /\ fr'.via_module) =>
       fetches' = fetches /\ default_rng' = default_rng /\ fr'.self = default_rng
  /\ (default_rng = 0 /\ fr'.err # "") => default_rng' = 0

\* C8: every step keeps to the lazy construction of the default generator.
C8_LazyDefault == [][C8_LazyDefaultStep]_vars

(***************************************************************************)
(* C10.  One _randbelow call and the entropy it meets.                     *)
(***************************************************************************)
LiveNext ==
  \/ \E upper \in Uppers : Randbelow(1, upper)
  \/ \E entropy \in EntropyBlocks : XorBlock(entropy)
  \/ Accept
  \/ Reject

\* The entropy source yields a block whose candidate is below upper.
AcceptableDraw ==
  \E entropy \in EntropyBlocks :
    /\ XorBlock(entropy)
    /\ Filled(fr')
    /\ Accepts(Candidate(fr'), fr'.upper)

\* The caller's thread keeps running, and the entropy source does not yield
\* candidates >= upper for ever.
FairSpec ==
  /\ GenInit
  /\ [][LiveNext]_vars
  /\ WF_vars(Accept)
  /\ WF_vars(Reject)
  /\ SF_vars(AcceptableDraw)

CanReject ==
  \E entropy \in EntropyBlocks :
    LET g == XorBlockFrame(fr, entropy, ServerBytes)
    IN Filled(g) /\ ~Accepts(Candidate(g), g.upper)

(***************************************************************************)
(* C10. Under that fairness a _randbelow(upper) call, upper > 0, returns.  *)
(* The loop has no cap: at its top a rejected draw is always possible, a   *)
(* rejected candidate is dropped and the loop is back at its top with an   *)
(* empty buffer, so that the next candidate is made of entropy drawn       *)
(* after it.                                                               *)
(***************************************************************************)
C10_RejectStep ==
  (fr.op \in BelowOps /\ InRandomBytes(fr) /\ Filled(fr)
     /\ RefStreamInt(fr.drawn, ServerBytes, fr.k) >= fr.upper)
    => /\ fr'.pc = "random_bytes"
       /\ fr'.output = <<>>
       /\ fr'.drawn = <<>>
       /\ fr'.upper = fr.upper /\ fr'.k = fr.k /\ fr'.draws = fr.draws

\* C10: the call returns, a rejection is always possible, a rejection starts afresh.
C10_Terminates ==
  /\ (fr.op = "_randbelow" /\ InRandomBytes(fr)) ~> Returned({"_randbelow"})
  /\ [](AtLoopTop => CanReject)
  /\ [][C10_RejectStep]_vars

C10_Witness ==
  /\ fr.op = "_randbelow"
  /\ AtLoopTop
  /\ fr.entropy_used
  /\ fr.upper = 3

====
